---- MODULE Spec2Model ----
(***************************************************************************)
(* Model of the RAG Security Lab V2 trust-verification core:               *)
(*   security/audit/audit_log.py          hash-chained audit log           *)
(*   security/lineage/lineage_chain.py    lineage record, signing payload  *)
(*   security/lineage/signer.py           HMAC signer                      *)
(*   security/lineage/verify.py           lineage verifier                 *)
(*   security/semantic/semantic_scanner.py  anomaly scorer (verdict only)  *)
(*   security/quarantine/quarantine_manager.py  evidence bundles           *)
(*   security/pipeline/rag_security_pipeline.py ingestion pipeline         *)
(*                                                                         *)
(* Python values are tagged tuples whose first element names the type, so  *)
(* that values of different Python types are different TLA+ values:        *)
(*   <<"none">>  <<"str", s>>  <<"ustr", s>>  <<"int", n>>  <<"bool", b>>  *)
(*   <<"hexdigest", alg, ...>> (a str of hex digits)  <<"bytes", text>>    *)
(*   <<"dict", f>>  <<"list", s>>  <<"object", name>>                      *)
(*   <<"LineageRecord", fields>>                                           *)
(* Digests are collision-free: a digest is its tagged preimage.            *)
(***************************************************************************)
EXTENDS Integers, Sequences, FiniteSets, TLC

\* ------------------------------------------------------------------ bounds
MaxLog == 4
MaxClock == 3
NumWriters == 2
MaxWrites == 2
MaxTamper == 2
MaxSaves == 2

\* Clock ticks per second: the clock is finer than the one-second precision
\* of the timestamps the code formats.
TicksPerSecond == 2

\* ------------------------------------------------------------ Python values
NoneV == <<"none">>
Str(s) == <<"str", s>>
IntV(n) == <<"int", n>>
BoolV(b) == <<"bool", b>>
Dict(f) == <<"dict", f>>
EmptyDict == <<"dict", [k \in {} |-> NoneV]>>
\* A str that holds a character outside ASCII.
UStr(s) == <<"ustr", s>>

\* A str made of ASCII characters only (hex digests are).
is_ascii_str(v) == v[1] \in {"str", "hexdigest"}

\* bool(v) as `if v:` and `v or default` evaluate it.
truthy(v) ==
    CASE v[1] = "none" -> FALSE
      [] v[1] = "dict" -> DOMAIN v[2] # {}
      [] v[1] = "list" -> Len(v[2]) > 0
      [] OTHER -> TRUE

\* Whether json.dumps accepts the value (it raises TypeError otherwise).
RECURSIVE json_serializable(_)
json_serializable(v) ==
    CASE v[1] = "object" -> FALSE
      [] v[1] = "dict" -> \A k \in DOMAIN v[2] : json_serializable(v[2][k])
      [] v[1] = "LineageRecord" -> FALSE
      [] OTHER -> TRUE

\* json.dumps of a mapping: the pairs (key, value) in the order of keys.
json_dumps(d, keys) == [i \in 1..Len(keys) |-> <<keys[i], d[keys[i]]>>]

\* str.encode("utf-8")
encode_utf8(text) == <<"bytes", text>>

\* audit_log.sha256_hex and lineage_chain.sha256_hex
sha256_hex(data) == <<"hexdigest", "sha256", data>>

\* What a function call ends with: a returned value or a raised exception.
Ret(v) == [raised |-> "", value |-> v]
Raise(e) == [raised |-> e, value |-> FALSE]

\* -------------------------------------------------------------- audit log
\* The fields of AuditLogEntry in declaration order (the order asdict and the
\* persisted line use) and in sorted order (json.dumps(sort_keys=True)).
EntryFields == <<"index", "timestamp", "event_type", "document_id", "stage",
                 "status", "reason", "details", "prev_hash", "entry_hash">>
EntryFieldsSorted == <<"details", "document_id", "entry_hash", "event_type",
                       "index", "prev_hash", "reason", "stage", "status",
                       "timestamp">>

\* time.strftime("%Y-%m-%dT%H:%M:%SZ", time.gmtime()): second precision.
audit_timestamp(t) == Str(<<"%Y-%m-%dT%H:%M:%SZ", t \div TicksPerSecond>>)

\* A hash that covers the entry's header and leaves the details out.
compute_entry_hash_without_details(entry_dict) ==
    sha256_hex(encode_utf8(json_dumps(entry_dict,
        SelectSeq(EntryFieldsSorted, LAMBDA k : k # "details"))))

\* AuditLog._compute_entry_hash
compute_entry_hash(entry_dict) ==
    sha256_hex(encode_utf8(json_dumps(entry_dict, EntryFieldsSorted)))

\* A write_event that forgets the chain link.
new_entry_unlinked(idx, t, ev, prev) ==
    [index |-> idx, timestamp |-> audit_timestamp(t),
     event_type |-> ev.event_type, document_id |-> ev.document_id,
     stage |-> ev.stage, status |-> ev.status, reason |-> ev.reason,
     details |-> ev.details, prev_hash |-> NoneV, entry_hash |-> NoneV]

\* The entry write_event builds (asdict(entry), entry_hash still None).
new_entry(idx, t, ev, prev) ==
    [index |-> idx, timestamp |-> audit_timestamp(t),
     event_type |-> ev.event_type, document_id |-> ev.document_id,
     stage |-> ev.stage, status |-> ev.status, reason |-> ev.reason,
     details |-> ev.details, prev_hash |-> prev, entry_hash |-> NoneV]

\* json.dumps(entry_dict, ensure_ascii=False) + "\n": one line of the file.
dump_line(entry_dict) == <<"line", json_dumps(entry_dict, EntryFields)>>

\* json.loads of a persisted line, as a consumer replaying the log does.
load_line(line) ==
    LET pairs == line[2]
        pos(k) == (CHOOSE i \in 1..Len(pairs) : pairs[i][1] = k)
    IN  [k \in {EntryFields[i] : i \in 1..Len(EntryFields)} |->
            pairs[pos(k)][2]]

\* Replay: the hash recomputed from a persisted line, entry_hash set to null.
recompute_hash(line) ==
    compute_entry_hash([load_line(line) EXCEPT !.entry_hash = NoneV])

\* ------------------------------------------------- lineage record, signer
\* Document ids are sequences of characters (the quarantine store rewrites
\* single characters of them).
DocA == <<"d", "o", "c", " ", "a">>
DocIds == {DocA}
Contents == {"clean text", "poisoned text"}

\* The fields of LineageRecord; signature is the one with a default.
RecordFields == {"document_id", "version", "content_hash", "prev_hash",
                 "created_at", "author", "source", "signature"}
RequiredFields == RecordFields \ {"signature"}

\* The keys of the signed payload, sorted (json.dumps(sort_keys=True)).
PayloadFieldsSorted == <<"author", "content_hash", "created_at",
                         "document_id", "prev_hash", "source", "version">>

\* LineageRecord.compute_content_hash
compute_content_hash(content) == sha256_hex(encode_utf8(content))

\* LineageRecord.core_payload_bytes
core_payload_bytes(record) ==
    encode_utf8(json_dumps(record, PayloadFieldsSorted))

\* datetime.utcnow().isoformat() + "Z"
created_at_stamp(t) == Str(<<"isoformat", t>>)

\* lineage_chain.create_lineage_record (prev_hash=None, version=1)
create_lineage_record(document_id, content, author, source, t) ==
    [document_id |-> Str(document_id), version |-> IntV(1),
     content_hash |-> compute_content_hash(content), prev_hash |-> NoneV,
     created_at |-> created_at_stamp(t), author |-> Str(author),
     source |-> Str(source), signature |-> NoneV]

\* The signer's keys: the verifier's key and a key it does not trust.
TrustedKey == "super-secret-demo-key"
OtherKey == "attacker-key"
Keys == {TrustedKey, OtherKey}

\* HMACSigner.sign
sign(secret_key, content) ==
    <<"hexdigest", "hmac-sha256", secret_key, content>>

\* hmac.compare_digest(a, b) for a str a of hex digits: it raises TypeError
\* unless b is a str of ASCII characters.
compare_digest(a, b) ==
    IF is_ascii_str(b) THEN Ret(a = b) ELSE Raise("TypeError")

\* HMACSigner.verify
verify(secret_key, content, signature) ==
    compare_digest(sign(secret_key, content), signature)

\* full_attack_simulation._sign_lineage_record
sign_lineage_record(secret_key, record) ==
    [record EXCEPT !.signature = sign(secret_key, core_payload_bytes(record))]

\* ---------------------------------------------------------------- verifier
\* LineageVerifier.verify_content_hash
verify_content_hash(record, content) ==
    compute_content_hash(content) = record.content_hash

\* LineageVerifier.verify_signature
verify_signature(secret_key, record) ==
    IF record.signature = NoneV THEN Ret(FALSE)
    ELSE verify(secret_key, core_payload_bytes(record), record.signature)

\* What verify_record ends with: (ok, reason) or a raised exception.
Verdict(ok, reason) == [raised |-> "", ok |-> ok, reason |-> reason]
VerdictRaise(e) == [raised |-> e, ok |-> FALSE, reason |-> ""]

\* LineageVerifier.verify_record
verify_record(secret_key, record, content) ==
    IF ~verify_content_hash(record, content)
    THEN Verdict(FALSE, "Content hash mismatch.")
    ELSE LET sig == verify_signature(secret_key, record)
         IN  IF sig.raised # "" THEN VerdictRaise(sig.raised)
             ELSE IF ~sig.value THEN Verdict(FALSE, "Invalid signature.")
             ELSE Verdict(TRUE, "Lineage and integrity verified.")

\* ------------------------------------------------------------------ state
VARIABLES
    log_file,    \* the lines of the file at AuditLog.path, in file order
    last_hash,   \* AuditLog._last_hash
    counter,     \* AuditLog._counter
    now,         \* the wall clock, in ticks
    attempts,    \* write_event calls made so far, with their outcome
    wpc,         \* concurrent writers: position inside write_event
    wloc,        \* concurrent writers: local variables of write_event
    vrec,        \* verifier: the lineage record under test
    vcontent,    \* verifier: the content presented with the record
    vsigned,     \* verifier: the record as it was signed, and the key used
    vout,        \* verifier: what verify_record / verify_signature returned
    ntamper,     \* verifier: fields changed since the record was created
    call,        \* pipeline: the process_document calls
    bundles,     \* quarantine: the files under the quarantine directory
    tampered,    \* audit log: the edit made to the file behind AuditLog's back
    saves        \* quarantine: the save_evidence_bundle calls made directly

logVars == <<log_file, last_hash, counter, attempts>>
writerVars == <<wpc, wloc>>
verifierVars == <<vrec, vcontent, vsigned, vout, ntamper>>
pipeVars == <<call, bundles>>
historyVars == <<tampered, saves>>
vars == <<logVars, now, writerVars, verifierVars, pipeVars, historyVars>>

\* The events write_event is called with in the log-only specifications.
Details == {EmptyDict, Dict([version |-> IntV(1)])}
LogEvents ==
    [event_type : {"ingest_start", "accept"}, document_id : {Str(DocA)},
     stage : {"start"}, status : {"processing"},
     reason : {"r"}, details : Details]

\* The local variables of a write_event call that has not started.
NoEvent == CHOOSE ev \in LogEvents : TRUE
InitWriter ==
    [n |-> 0, ev |-> NoEvent, ts |-> 0, index |-> 0, prev |-> NoneV,
     entry_hash |-> NoneV, tmp |-> 0]

\* AuditLog.__init__ over an empty file.
FreshLog ==
    /\ log_file = <<>>
    /\ last_hash = NoneV
    /\ counter = 0
    /\ attempts = <<>>

\* No writer thread has started.
WritersIdle ==
    /\ wpc = [w \in 1..NumWriters |-> "idle"]
    /\ wloc = [w \in 1..NumWriters |-> InitWriter]

\* The verifier's results before it has run.
NotRun ==
    [record |-> [run |-> FALSE, raised |-> "", ok |-> FALSE, reason |-> ""],
     signature |-> [run |-> FALSE, raised |-> "", value |-> FALSE]]
NoRecord == create_lineage_record(DocA, "clean text", "", "", 0)
VerifierIdle ==
    /\ vrec = NoRecord
    /\ vcontent = "clean text"
    /\ vsigned = [signed |-> FALSE, key |-> "", rec |-> NoRecord]
    /\ vout = NotRun
    /\ ntamper = 0

\* Nobody has edited the log file, and no bundle was saved directly.
NoTamper == [kind |-> "none", index |-> 0, field |-> ""]
HistoryIdle ==
    /\ tampered = NoTamper
    /\ saves = <<>>

\* ------------------------------------------------ sequential write_event
\* The clock advances.
Tick ==
    /\ now < MaxClock
    /\ now' = now + 1
    /\ UNCHANGED <<historyVars, logVars, writerVars, verifierVars, pipeVars>>

\* A write_event that opens the file with mode "w": the line replaces the file.
write_event_effect_truncating(ev, appended) ==
    LET entry == new_entry(counter, now, ev, last_hash)
        entry_dict == [entry EXCEPT !.entry_hash = compute_entry_hash(entry)]
    IN  /\ last_hash' = entry_dict.entry_hash
        /\ counter' = counter + 1
        /\ log_file' = IF appended THEN <<dump_line(entry_dict)>> ELSE log_file
        /\ attempts' = Append(attempts, appended)

\* AuditLog.write_event, run to completion by one caller; appended tells
\* whether open/write of the file succeeded.
write_event_effect(ev, appended) ==
    LET entry == new_entry(counter, now, ev, last_hash)
        entry_dict == [entry EXCEPT !.entry_hash = compute_entry_hash(entry)]
    IN  /\ last_hash' = entry_dict.entry_hash
        /\ counter' = counter + 1
        /\ log_file' = IF appended THEN Append(log_file, dump_line(entry_dict))
                                   ELSE log_file
        /\ attempts' = Append(attempts, appended)

WriteEvent ==
    /\ Len(attempts) < MaxLog
    /\ \E ev \in LogEvents : write_event_effect(ev, TRUE)
    /\ UNCHANGED <<historyVars, now, writerVars, verifierVars, pipeVars>>

\* The same call when the durable append fails (open or write raises).
WriteEventFails ==
    /\ Len(attempts) < MaxLog
    /\ \E ev \in LogEvents : write_event_effect(ev, FALSE)
    /\ UNCHANGED <<historyVars, now, writerVars, verifierVars, pipeVars>>

\* AuditLog.__init__ on the path of a file that may hold entries: the
\* process restarts, or a second AuditLog replaces the first as the writer.
\* The constructor does not read the file.
Restart ==
    /\ last_hash' = NoneV
    /\ counter' = 0
    /\ UNCHANGED <<historyVars, log_file, attempts, now, writerVars,
                   verifierVars, pipeVars>>

\* ------------------------------------------------- edits of the log file
\* The file is plain JSON lines: whoever can write it can replace a line.
\* These are the values an edit may put into a field of a stored entry.
ForgedValues(field) ==
    CASE field = "index" -> 0..MaxLog
      [] field = "timestamp" -> {audit_timestamp(t) : t \in 0..MaxClock}
      [] field = "event_type" -> {"ingest_start", "accept", "lineage_ok"}
      [] field = "document_id" -> {Str(DocA), Str(<<"d", "o", "c", "b">>)}
      [] field = "stage" -> {"start", "pipeline_end"}
      [] field = "status" -> {"processing", "accepted"}
      [] field = "reason" -> {"r", "forged"}
      [] field = "details" -> Details \cup {Dict([version |-> IntV(2)])}
      [] field = "prev_hash" ->
            {NoneV} \cup {load_line(log_file[j]).entry_hash :
                             j \in 1..Len(log_file)}

HashedFields == {EntryFields[k] : k \in 1..Len(EntryFields)} \ {"entry_hash"}

\* Line i with one field changed, the stored entry_hash kept or recomputed.
forged_line(i, field, v, rehash) ==
    LET e == [load_line(log_file[i]) EXCEPT ![field] = v]
    IN  IF rehash
        THEN dump_line([e EXCEPT !.entry_hash =
                 compute_entry_hash([e EXCEPT !.entry_hash = NoneV])])
        ELSE dump_line(e)

\* One field of one stored entry is changed; entry_hash is left as stored.
t_edit_field ==
    /\ tampered = NoTamper
    /\ \E i \in 1..Len(log_file), field \in HashedFields :
       \E v \in ForgedValues(field) \ {load_line(log_file[i])[field]} :
          /\ log_file' = [log_file EXCEPT ![i] = forged_line(i, field, v, FALSE)]
          /\ tampered' = [kind |-> "field", index |-> i, field |-> field]
    /\ UNCHANGED <<saves, last_hash, counter, attempts, now, writerVars,
                   verifierVars, pipeVars>>

\* One field of one stored entry is changed and its entry_hash replaced by
\* the hash of the changed entry.
t_edit_and_rehash ==
    /\ tampered = NoTamper
    /\ \E i \in 1..Len(log_file), field \in HashedFields :
       \E v \in ForgedValues(field) \ {load_line(log_file[i])[field]} :
          /\ log_file' = [log_file EXCEPT ![i] = forged_line(i, field, v, TRUE)]
          /\ tampered' = [kind |-> "rehash", index |-> i, field |-> field]
    /\ UNCHANGED <<saves, last_hash, counter, attempts, now, writerVars,
                   verifierVars, pipeVars>>

\* ----------------------------------------------- concurrent write_event
\* Threads call write_event on one shared AuditLog.  The method holds no
\* lock, so a thread switch can fall between any two of its statements; the
\* steps are the reads and writes of the shared fields and the file append.

\* line 54: the call starts and reads the clock.
w_call(w) ==
    /\ wpc[w] = "idle"
    /\ wloc[w].n < MaxWrites
    /\ \E ev \in LogEvents :
          wloc' = [wloc EXCEPT ![w].ev = ev, ![w].ts = now]
    /\ wpc' = [wpc EXCEPT ![w] = "read_counter"]
    /\ UNCHANGED <<historyVars, logVars, now, verifierVars, pipeVars>>

\* line 56: index=self._counter
w_read_counter(w) ==
    /\ wpc[w] = "read_counter"
    /\ wloc' = [wloc EXCEPT ![w].index = counter]
    /\ wpc' = [wpc EXCEPT ![w] = "read_last_hash"]
    /\ UNCHANGED <<historyVars, logVars, now, verifierVars, pipeVars>>

\* lines 64-68: prev_hash=self._last_hash, then the hash of the entry.
w_read_last_hash(w) ==
    /\ wpc[w] = "read_last_hash"
    /\ LET entry == new_entry(wloc[w].index, wloc[w].ts, wloc[w].ev, last_hash)
       IN  wloc' = [wloc EXCEPT ![w].prev = last_hash,
                                ![w].entry_hash = compute_entry_hash(entry)]
    /\ wpc' = [wpc EXCEPT ![w] = "set_last_hash"]
    /\ UNCHANGED <<historyVars, logVars, now, verifierVars, pipeVars>>

\* line 71: self._last_hash = entry_dict["entry_hash"]
w_set_last_hash(w) ==
    /\ wpc[w] = "set_last_hash"
    /\ last_hash' = wloc[w].entry_hash
    /\ wpc' = [wpc EXCEPT ![w] = "load_counter"]
    /\ UNCHANGED <<historyVars, log_file, counter, attempts, now, wloc, verifierVars,
                   pipeVars>>

\* line 72: self._counter += 1 loads the field ...
w_load_counter(w) ==
    /\ wpc[w] = "load_counter"
    /\ wloc' = [wloc EXCEPT ![w].tmp = counter]
    /\ wpc' = [wpc EXCEPT ![w] = "store_counter"]
    /\ UNCHANGED <<historyVars, logVars, now, verifierVars, pipeVars>>

\* ... and stores the sum.
w_store_counter(w) ==
    /\ wpc[w] = "store_counter"
    /\ counter' = wloc[w].tmp + 1
    /\ wpc' = [wpc EXCEPT ![w] = "append"]
    /\ UNCHANGED <<historyVars, log_file, last_hash, attempts, now, wloc, verifierVars,
                   pipeVars>>

\* lines 74-75: the line is appended to the file.
w_append(w) ==
    /\ wpc[w] = "append"
    /\ LET entry == new_entry(wloc[w].index, wloc[w].ts, wloc[w].ev,
                              wloc[w].prev)
           entry_dict == [entry EXCEPT !.entry_hash = wloc[w].entry_hash]
       IN  log_file' = Append(log_file, dump_line(entry_dict))
    /\ attempts' = Append(attempts, TRUE)
    /\ wloc' = [wloc EXCEPT ![w].n = @ + 1]
    /\ wpc' = [wpc EXCEPT ![w] = "idle"]
    /\ UNCHANGED <<historyVars, last_hash, counter, now, verifierVars, pipeVars>>

\* ------------------------------------------------- verifier on one record
\* The values a field of a lineage record can be changed to.
FieldValues(f) ==
    CASE f = "document_id" -> {Str(DocA), Str(<<"d", "o", "c", "b">>)}
      [] f = "version" -> {IntV(1), IntV(2)}
      [] f = "content_hash" ->
            {compute_content_hash(c) : c \in Contents} \cup {Str("DEADBEEF")}
      [] f = "prev_hash" -> {NoneV, Str("0ldhash")}
      [] f = "created_at" -> {created_at_stamp(0), created_at_stamp(1)}
      [] f = "author" -> {Str("security-team"), Str("attacker")}
      [] f = "source" -> {Str("confluence"), Str("github")}
      [] f = "signature" ->
            {NoneV, Str("0bad51g"), UStr("0bad51g-e-acute")}

\* The record is signed, once, and the signature attached.
v_sign ==
    /\ ~vsigned.signed
    /\ ntamper = 0
    /\ \E k \in Keys :
          /\ vrec' = sign_lineage_record(k, vrec)
          /\ vsigned' = [signed |-> TRUE, key |-> k, rec |-> vrec']
    /\ vout' = NotRun
    /\ UNCHANGED <<historyVars, logVars, now, writerVars, vcontent, ntamper, pipeVars>>

\* One field of the record is changed to another value.
v_tamper ==
    /\ ntamper < MaxTamper
    /\ \E f \in RecordFields : \E val \in FieldValues(f) :
          /\ val # vrec[f]
          /\ vrec' = [vrec EXCEPT ![f] = val]
    /\ ntamper' = ntamper + 1
    /\ vout' = NotRun
    /\ UNCHANGED <<historyVars, logVars, now, writerVars, vcontent, vsigned, pipeVars>>

\* LineageVerifier.verify_record(record, content)
v_verify_record ==
    /\ ~vout.record.run
    /\ LET r == verify_record(TrustedKey, vrec, vcontent)
       IN  vout' = [vout EXCEPT !.record =
                       [run |-> TRUE, raised |-> r.raised, ok |-> r.ok,
                        reason |-> r.reason]]
    /\ UNCHANGED <<historyVars, logVars, now, writerVars, vrec, vcontent, vsigned,
                   ntamper, pipeVars>>

\* LineageVerifier.verify_signature(record)
v_verify_signature ==
    /\ ~vout.signature.run
    /\ LET r == verify_signature(TrustedKey, vrec)
       IN  vout' = [vout EXCEPT !.signature =
                       [run |-> TRUE, raised |-> r.raised, value |-> r.value]]
    /\ UNCHANGED <<historyVars, logVars, now, writerVars, vrec, vcontent, vsigned,
                   ntamper, pipeVars>>

\* -------------------------------------------------------- semantic scorer
\* The scorer is an external collaborator; of SemanticScanner only the
\* verdict matters here.  Distances are in hundredths.
SemanticThreshold == 35
Alpha == 60

\* cosine distance of the document's embedding to the baseline (the
\* embedding model is outside this model: one value per content).
baseline_distance(content) == IF content = "poisoned text" THEN 80 ELSE 5

\* SemanticScanner.compute_scores, reached through SemanticScanner.detect
detect(content) ==
    LET semantic_score == baseline_distance(content)
        cluster_distance == baseline_distance(content)
        total_score == (Alpha * semantic_score
                        + (100 - Alpha) * cluster_distance) \div 100
    IN  Dict([semantic_score |-> IntV(semantic_score),
              cluster_distance |-> IntV(cluster_distance),
              total_score |-> IntV(total_score),
              is_suspicious |-> BoolV(total_score > SemanticThreshold)])

\* ------------------------------------------------------------- quarantine
QuarantineDir == "data/quarantine"

\* datetime.utcnow().strftime("%Y%m%dT%H%M%SZ"): second precision.
bundle_timestamp(t) == <<"%Y%m%dT%H%M%SZ", t \div TicksPerSecond>>

\* document_id.replace(" ", "_")
safe_id(document_id) ==
    [i \in 1..Len(document_id) |->
        IF document_id[i] = " " THEN "_" ELSE document_id[i]]

\* A bundle directory that also carries the number of bundles saved so far.
bundle_path_of_with_sequence(t, document_id) ==
    <<"path", QuarantineDir,
      <<bundle_timestamp(t), "_", ToString(Len(saves)), "_">>
          \o safe_id(document_id)>>

\* A bundle directory named after the document alone.
bundle_path_of_without_timestamp(t, document_id) ==
    <<"path", QuarantineDir, safe_id(document_id)>>

\* A bundle directory named after the audit chain position as well.
bundle_path_of_with_counter(t, document_id) ==
    <<"path", QuarantineDir,
      <<bundle_timestamp(t), "_", ToString(counter), "_">>
          \o safe_id(document_id)>>

\* QuarantineManager._bundle_path: the directory of the bundle.
bundle_path_of(t, document_id) ==
    <<"path", QuarantineDir,
      <<bundle_timestamp(t), "_">> \o safe_id(document_id)>>

\* The components of a name between its "/" separators ("a/b" has two).
RECURSIVE split_components(_)
split_components(s) ==
    IF s = <<>> THEN <<<<>>>>
    ELSE LET r == split_components(Tail(s))
         IN  IF Head(s) = "/" THEN <<<<>>>> \o r
             ELSE <<<<Head(s)>> \o r[1]>> \o Tail(r)

\* The components joined by "/" again.
RECURSIVE join_components(_)
join_components(comps) ==
    IF comps = <<>> THEN <<>>
    ELSE IF Len(comps) = 1 THEN comps[1]
    ELSE comps[1] \o <<"/">> \o join_components(Tail(comps))

\* Path resolution by the operating system, from the quarantine root down:
\* "" and "." stay, ".." goes to the parent, which is above the root once
\* nothing is left to leave (up counts those steps).
RECURSIVE walk(_, _, _)
walk(comps, up, stack) ==
    IF comps = <<>> THEN [up |-> up, stack |-> stack]
    ELSE LET c == Head(comps)
         IN  IF c \in {<<>>, <<".">>} THEN walk(Tail(comps), up, stack)
             ELSE IF c = <<".", ".">>
                  THEN IF stack = <<>>
                       THEN walk(Tail(comps), up + 1, stack)
                       ELSE walk(Tail(comps), up,
                                 SubSeq(stack, 1, Len(stack) - 1))
             ELSE walk(Tail(comps), up, Append(stack, c))

\* Where the quarantine root's directory entry for the path leads: the
\* components of os.path.join(quarantine_dir, f"{timestamp}_{safe_id}")
\* below the root after resolution, and the steps above the root.
resolved(path) ==
    LET name == path[3]
        rest == split_components(SubSeq(name, 3, Len(name)))
        first == <<name[1], name[2]>> \o rest[1]
    IN  walk(Tail(rest), 0, <<first>>)

\* The directory os.makedirs(path) creates and open(os.path.join(path, f))
\* writes into: the path itself unless ".." components take it elsewhere.
directory_of(path) ==
    LET r == resolved(path)
    IN  IF r.up = 0 THEN <<"path", path[2], join_components(r.stack)>>
        ELSE <<"outside", r.up, join_components(r.stack)>>

\* The files save_evidence_bundle writes, in the order it writes them.
planned_files(content, reason, lineage_record, detection_scores, metadata) ==
    <<[name |-> "content.txt", data |-> Str(content)],
      [name |-> "reason.txt", data |-> Str(reason)]>>
    \o (IF truthy(lineage_record)
        THEN <<[name |-> "lineage_record.json", data |-> lineage_record]>>
        ELSE <<>>)
    \o (IF truthy(detection_scores)
        THEN <<[name |-> "detection_scores.json", data |-> detection_scores]>>
        ELSE <<>>)
    \o (IF truthy(metadata)
        THEN <<[name |-> "metadata.json", data |-> metadata]>>
        ELSE <<>>)

\* What a file holds when json.dump raised after open(path, "w").
Truncated == <<"truncated">>

\* The bundle directory after the first n of the files were written; the
\* files already in the directory stay unless they are written again.
directory_after(old, files, n) ==
    LET written == {files[i].name : i \in 1..n}
        last(nm) == CHOOSE i \in 1..n :
                       /\ files[i].name = nm
                       /\ \A j \in 1..n : files[j].name = nm => j <= i
    IN  [nm \in DOMAIN old \cup written |->
            IF nm \in written THEN files[last(nm)].data ELSE old[nm]]

\* The ways save_evidence_bundle can end: "ok" after all writes, "OSError"
\* when makedirs (at = 0) or the write of file at fails, "TypeError" when
\* file at does not serialize.
save_outcomes(files) ==
    LET bad == {i \in 1..Len(files) : ~json_serializable(files[i].data)}
        stop == IF bad = {} THEN Len(files) + 1
                ELSE CHOOSE i \in bad : \A j \in bad : i <= j
    IN  {[result |-> "OSError", at |-> k] : k \in 0..(stop - 1)}
        \cup (IF bad = {} THEN {[result |-> "ok", at |-> Len(files)]}
              ELSE {[result |-> "TypeError", at |-> stop]})

\* The quarantine directory after save_evidence_bundle ended with outcome o.
bundles_after(old_bundles, path, files, o) ==
    LET dir == directory_of(path)
        old == IF dir \in DOMAIN old_bundles THEN old_bundles[dir]
               ELSE [nm \in {} |-> NoneV]
        done == CASE o.result = "ok" -> directory_after(old, files, o.at)
                  [] o.result = "OSError" /\ o.at > 0 ->
                        directory_after(old, files, o.at - 1)
                  [] o.result = "TypeError" ->
                        [directory_after(old, files, o.at)
                            EXCEPT ![files[o.at].name] = Truncated]
                  [] OTHER -> old
    IN  IF o.result = "OSError" /\ o.at = 0 THEN old_bundles
        ELSE (dir :> done) @@ old_bundles

\* The document ids save_evidence_bundle is called with directly: two that
\* differ in a space against an underscore, one that differs in a letter,
\* and two that hold path separators ("a/b" and "a/../../e").
QuarantineDocIds ==
    {DocA, <<"d", "o", "c", "_", "a">>, <<"d", "o", "c", "_", "b">>,
     <<"a", "/", "b">>, <<"a", "/", ".", ".", "/", ".", ".", "/", "e">>}

\* A directory nothing was written to.
EmptyDirectory == [nm \in {} |-> NoneV]

\* QuarantineManager.save_evidence_bundle, called on storage that works; the
\* call is recorded with the time it was made at, the path it returned and
\* the bundle directory as it left it.
q_save ==
    /\ Len(saves) < MaxSaves
    /\ \E d \in QuarantineDocIds, c \in Contents,
          lin \in {NoneV, Dict([version |-> IntV(1)])} :
          LET path == bundle_path_of(now, d)
              files == planned_files(c, "Semantic anomaly detected.", lin,
                                     NoneV, NoneV)
              after == bundles_after(bundles, path, files,
                           [result |-> "ok", at |-> Len(files)])
          IN  /\ bundles' = after
              /\ saves' = Append(saves,
                     [document_id |-> d, time |-> now, path |-> path,
                      artifacts |-> directory_after(EmptyDirectory, files,
                                                    Len(files)),
                      directory |-> after[directory_of(path)]])
    /\ UNCHANGED <<tampered, call, logVars, now, writerVars, verifierVars>>

\* --------------------------------------------------------------- pipeline
CallIds == {1, 2}

\* The verdict of a call that has not returned.
NoVerdict ==
    [status |-> "", reason |-> "", bundle_path |-> NoneV,
     semantic_scores |-> NoneV]

IdleCall ==
    [pc |-> "idle", document_id |-> DocA, content |-> "clean text",
     lineage_record |-> NoneV, metadata |-> NoneV,
     normalized_record |-> NoneV, verified |-> Verdict(FALSE, ""),
     semantic_result |-> NoneV, ret |-> NoVerdict, exc |-> "",
     trace |-> <<>>]

PipeIdle ==
    /\ call = [c \in CallIds |-> IdleCall]
    /\ bundles = [p \in {} |-> NoneV]

\* The lineage inputs a caller may hand in with content c.
signed_record(document_id, content) ==
    sign_lineage_record(TrustedKey,
        create_lineage_record(document_id, content, "security-team",
                              "confluence", 0))

LineageInputs(d, c) ==
    LET good == signed_record(d, c)
        other == CHOOSE c2 \in Contents : c2 # c
    IN  { NoneV,
          <<"LineageRecord", good>>,
          Dict(good),
          Dict(signed_record(d, other)),
          Dict([good EXCEPT !.author = Str("attacker"),
                            !.content_hash = Str("DEADBEEF")]),
          Dict([good EXCEPT !.author = Str("attacker")]),
          Dict([good EXCEPT !.signature = NoneV]),
          Dict(sign_lineage_record(OtherKey, good)),
          Dict([good EXCEPT !.signature = UStr("0bad51g-e-acute")]),
          Dict([good EXCEPT !.signature = IntV(12345)]),
          Dict([f \in RequiredFields |-> good[f]]),
          Dict([f \in RequiredFields \ {"source"} |-> good[f]]),
          Dict([f \in RecordFields \cup {"role"} |->
                   IF f = "role" THEN Str("admin") ELSE good[f]]),
          EmptyDict,
          <<"list", <<Str("x")>>>>,
          <<"object", "set">> }

MetadataInputs == {NoneV, EmptyDict, Dict([scenario |-> Str("clean")])}

\* A caller's value handed on as it came, with no fallback.
or_default_missing(v, default) == v

\* v or default
or_default(v, default) == IF truthy(v) THEN v ELSE default

\* RAGSecurityPipeline._normalize_lineage_record
normalize_lineage_record(lineage_record) ==
    CASE lineage_record = NoneV -> NoneV
      [] lineage_record[1] = "LineageRecord" -> lineage_record
      [] lineage_record[1] = "dict" ->
            LET d == lineage_record[2]
            IN  IF RequiredFields \subseteq DOMAIN d
                   /\ DOMAIN d \subseteq RecordFields
                THEN <<"LineageRecord",
                       [f \in RecordFields |->
                           IF f \in DOMAIN d THEN d[f] ELSE NoneV]>>
                ELSE NoneV
      [] OTHER -> NoneV

\* normalized_record.__dict__
record_dict(normalized_record) == Dict(normalized_record[2])

\* A pipeline that lets a failed storage write pass and goes on.
after_write_swallowed(appended, next_pc) == next_pc

\* No try/except surrounds a write: a failed write ends the call.
after_write(appended, next_pc) == IF appended THEN next_pc ELSE "raised"

\* A pipeline that treats a document without lineage as malformed lineage.
stage_after_lineage_required(pc, c) ==
    CASE pc = "idle" -> "normalize"
      [] pc = "normalize" ->
            IF c.normalized_record = NoneV THEN "malformed_log"
            ELSE "verify"
      [] pc = "malformed_log" -> "malformed_bundle"
      [] pc = "malformed_bundle" -> "returned"
      [] pc = "verify" ->
            IF c.verified.raised # "" THEN "raised"
            ELSE IF ~c.verified.ok THEN "lineage_fail_log"
            ELSE "lineage_ok_log"
      [] pc = "lineage_fail_log" -> "lineage_bundle"
      [] pc = "lineage_bundle" -> "returned"
      [] pc = "lineage_ok_log" -> "detect"
      [] pc = "detect" ->
            IF c.semantic_result[2].is_suspicious = BoolV(TRUE)
            THEN "semantic_fail_log" ELSE "semantic_ok_log"
      [] pc = "semantic_fail_log" -> "semantic_bundle"
      [] pc = "semantic_bundle" -> "returned"
      [] pc = "semantic_ok_log" -> "accept_log"
      [] pc = "accept_log" -> "returned"

\* A pipeline that treats a lineage input it cannot coerce as no lineage.
stage_after_lenient(pc, c) ==
    CASE pc = "idle" -> "normalize"
      [] pc = "normalize" ->
            IF c.normalized_record # NoneV THEN "verify" ELSE "detect"
      [] pc = "malformed_log" -> "malformed_bundle"
      [] pc = "malformed_bundle" -> "returned"
      [] pc = "verify" ->
            IF c.verified.raised # "" THEN "raised"
            ELSE IF ~c.verified.ok THEN "lineage_fail_log"
            ELSE "lineage_ok_log"
      [] pc = "lineage_fail_log" -> "lineage_bundle"
      [] pc = "lineage_bundle" -> "returned"
      [] pc = "lineage_ok_log" -> "detect"
      [] pc = "detect" ->
            IF c.semantic_result[2].is_suspicious = BoolV(TRUE)
            THEN "semantic_fail_log" ELSE "semantic_ok_log"
      [] pc = "semantic_fail_log" -> "semantic_bundle"
      [] pc = "semantic_bundle" -> "returned"
      [] pc = "semantic_ok_log" -> "accept_log"
      [] pc = "accept_log" -> "returned"

\* A pipeline whose lineage failure branch does not return.
stage_after_fallthrough(pc, c) ==
    CASE pc = "idle" -> "normalize"
      [] pc = "normalize" ->
            IF c.lineage_record # NoneV /\ c.normalized_record = NoneV
            THEN "malformed_log"
            ELSE IF c.normalized_record # NoneV THEN "verify"
            ELSE "detect"
      [] pc = "malformed_log" -> "malformed_bundle"
      [] pc = "malformed_bundle" -> "returned"
      [] pc = "verify" ->
            IF c.verified.raised # "" THEN "raised"
            ELSE IF ~c.verified.ok THEN "lineage_fail_log"
            ELSE "lineage_ok_log"
      [] pc = "lineage_fail_log" -> "lineage_ok_log"
      [] pc = "lineage_bundle" -> "returned"
      [] pc = "lineage_ok_log" -> "detect"
      [] pc = "detect" ->
            IF c.semantic_result[2].is_suspicious = BoolV(TRUE)
            THEN "semantic_fail_log" ELSE "semantic_ok_log"
      [] pc = "semantic_fail_log" -> "semantic_bundle"
      [] pc = "semantic_bundle" -> "returned"
      [] pc = "semantic_ok_log" -> "accept_log"
      [] pc = "accept_log" -> "returned"

\* The control flow of process_document: the stage that follows stage pc
\* when pc completed, given the call's local variables c.
stage_after(pc, c) ==
    CASE pc = "idle" -> "normalize"
      [] pc = "normalize" ->
            IF c.lineage_record # NoneV /\ c.normalized_record = NoneV
            THEN "malformed_log"
            ELSE IF c.normalized_record # NoneV THEN "verify"
            ELSE "detect"
      [] pc = "malformed_log" -> "malformed_bundle"
      [] pc = "malformed_bundle" -> "returned"
      [] pc = "verify" ->
            IF c.verified.raised # "" THEN "raised"
            ELSE IF ~c.verified.ok THEN "lineage_fail_log"
            ELSE "lineage_ok_log"
      [] pc = "lineage_fail_log" -> "lineage_bundle"
      [] pc = "lineage_bundle" -> "returned"
      [] pc = "lineage_ok_log" -> "detect"
      [] pc = "detect" ->
            IF c.semantic_result[2].is_suspicious = BoolV(TRUE)
            THEN "semantic_fail_log" ELSE "semantic_ok_log"
      [] pc = "semantic_fail_log" -> "semantic_bundle"
      [] pc = "semantic_bundle" -> "returned"
      [] pc = "semantic_ok_log" -> "accept_log"
      [] pc = "accept_log" -> "returned"

\* One thing a call did: a collaborator it invoked and how that ended.
Op(op, name, outcome) == [op |-> op, name |-> name, outcome |-> outcome]

\* An audit_log.write_event call made by process_document in state cl of
\* the call; ret is what the call returns when this write is its last
\* statement.  json.dumps raises TypeError before the chain head is touched
\* when details does not serialize; the append can fail after it was.
p_write(id, cl, ev, ret) ==
    IF ~json_serializable(ev.details)
    THEN /\ call' = [call EXCEPT ![id] =
                [cl EXCEPT !.pc = "raised", !.exc = "TypeError",
                    !.trace = Append(@, Op("write_event", ev.event_type,
                                           "TypeError"))]]
         /\ UNCHANGED logVars
    ELSE \E appended \in BOOLEAN :
         /\ write_event_effect(ev, appended)
         /\ call' = [call EXCEPT ![id] =
                [cl EXCEPT
                    !.pc = after_write(appended, stage_after(cl.pc, cl)),
                    !.exc = IF appended THEN "" ELSE "OSError",
                    !.ret = IF appended THEN ret ELSE cl.ret,
                    !.trace = Append(@, Op("write_event", ev.event_type,
                                IF appended THEN "ok" ELSE "OSError"))]]

Event(event_type, document_id, stage, status, reason, details) ==
    [event_type |-> event_type, document_id |-> Str(document_id),
     stage |-> stage, status |-> status, reason |-> reason,
     details |-> details]

\* A quarantine_manager.save_evidence_bundle call made by process_document,
\* followed by the return of the verdict.
p_save(id, reason, lineage_record, scores, metadata, ret_reason, ret_scores) ==
    LET cl == call[id]
        path == bundle_path_of(now, cl.document_id)
        files == planned_files(cl.content, reason, lineage_record, scores,
                               metadata)
    IN  \E o \in save_outcomes(files) :
          /\ bundles' = bundles_after(bundles, path, files, o)
          /\ call' = [call EXCEPT ![id] =
                [cl EXCEPT
                    !.pc = after_write(o.result = "ok",
                                       stage_after(cl.pc, cl)),
                    !.exc = IF o.result = "ok" THEN "" ELSE o.result,
                    !.ret = IF o.result = "ok"
                            THEN [status |-> "quarantined",
                                  reason |-> ret_reason,
                                  bundle_path |-> path,
                                  semantic_scores |-> ret_scores]
                            ELSE cl.ret,
                    !.trace = Append(@, Op("save_evidence_bundle", reason,
                                           o.result))]]

\* lines 53-60: process_document is called and logs ingest_start.
p_ingest_start(id) ==
    /\ call[id].pc = "idle"
    /\ \E d \in DocIds, c \in Contents, md \in MetadataInputs :
       \E lin \in LineageInputs(d, c) :
          LET cl == [IdleCall EXCEPT !.document_id = d, !.content = c,
                                     !.lineage_record = lin,
                                     !.metadata = md]
          IN  p_write(id, cl,
                  Event("ingest_start", d, "start", "processing",
                        "Document ingest started",
                        Dict([metadata |-> or_default(md, EmptyDict)])),
                  NoVerdict)
    /\ UNCHANGED <<historyVars, now, writerVars, verifierVars, bundles>>

\* process_document is called again with the arguments of call prev, after
\* that call has returned, and logs ingest_start.
p_resubmit(id, prev) ==
    /\ call[id].pc = "idle"
    /\ call[prev].pc = "returned"
    /\ LET cl == [IdleCall EXCEPT !.document_id = call[prev].document_id,
                                  !.content = call[prev].content,
                                  !.lineage_record = call[prev].lineage_record,
                                  !.metadata = call[prev].metadata]
       IN  p_write(id, cl,
               Event("ingest_start", cl.document_id, "start", "processing",
                     "Document ingest started",
                     Dict([metadata |-> or_default(cl.metadata, EmptyDict)])),
               NoVerdict)
    /\ UNCHANGED <<historyVars, now, writerVars, verifierVars, bundles>>

\* lines 62-64: the lineage input is normalized.
p_normalize(id) ==
    /\ call[id].pc = "normalize"
    /\ LET cl == [call[id] EXCEPT !.normalized_record =
                     normalize_lineage_record(call[id].lineage_record)]
       IN  call' = [call EXCEPT ![id] =
                       [cl EXCEPT !.pc = stage_after("normalize", cl)]]
    /\ UNCHANGED <<historyVars, logVars, now, writerVars, verifierVars, bundles>>

\* A malformed input logged the way a failed verification is.
p_malformed_log_at_lineage_stage(id) ==
    /\ call[id].pc = "malformed_log"
    /\ p_write(id, call[id],
           Event("lineage_fail", call[id].document_id,
                 "lineage", "quarantined",
                 "Invalid lineage structure",
                 Dict([raw_lineage |-> call[id].lineage_record])),
           NoVerdict)
    /\ UNCHANGED <<historyVars, now, writerVars, verifierVars, bundles>>

\* lines 65-69: lineage_fail is logged for an input that did not normalize.
p_malformed_log(id) ==
    /\ call[id].pc = "malformed_log"
    /\ p_write(id, call[id],
           Event("lineage_fail", call[id].document_id,
                 "lineage_deserialization", "quarantined",
                 "Invalid lineage structure",
                 Dict([raw_lineage |-> call[id].lineage_record])),
           NoVerdict)
    /\ UNCHANGED <<historyVars, now, writerVars, verifierVars, bundles>>

\* lines 70-83: the evidence is saved and the verdict returned.
p_malformed_bundle(id) ==
    /\ call[id].pc = "malformed_bundle"
    /\ p_save(id, "Lineage record deserialization failure.",
              call[id].lineage_record, NoneV,
              or_default(call[id].metadata,
                         Dict([stage |-> Str("lineage_deserialization")])),
              "Invalid lineage record structure.", NoneV)
    /\ UNCHANGED <<historyVars, logVars, now, writerVars, verifierVars>>

\* lines 86-89: the verifier runs on the normalized record.
p_verify(id) ==
    /\ call[id].pc = "verify"
    /\ LET r == verify_record(TrustedKey, call[id].normalized_record[2],
                              call[id].content)
           cl == [call[id] EXCEPT !.verified = r]
       IN  call' = [call EXCEPT ![id] =
               [cl EXCEPT !.pc = stage_after("verify", cl),
                          !.exc = r.raised,
                          !.trace = Append(@, Op("verify_record", r.reason,
                              IF r.raised = "" THEN "ok" ELSE r.raised))]]
    /\ UNCHANGED <<historyVars, logVars, now, writerVars, verifierVars, bundles>>

\* lines 90-95: lineage_fail is logged with the verifier's reason.
p_lineage_fail_log(id) ==
    /\ call[id].pc = "lineage_fail_log"
    /\ p_write(id, call[id],
           Event("lineage_fail", call[id].document_id, "lineage",
                 "quarantined", call[id].verified.reason,
                 Dict([lineage_record |->
                          record_dict(call[id].normalized_record)])),
           NoVerdict)
    /\ UNCHANGED <<historyVars, now, writerVars, verifierVars, bundles>>

\* lines 96-109: the evidence is saved and the verdict returned.
p_lineage_bundle(id) ==
    /\ call[id].pc = "lineage_bundle"
    /\ p_save(id, "Lineage/Integrity failed: " \o call[id].verified.reason,
              record_dict(call[id].normalized_record), NoneV,
              or_default(call[id].metadata, Dict([stage |-> Str("lineage")])),
              call[id].verified.reason, NoneV)
    /\ UNCHANGED <<historyVars, logVars, now, writerVars, verifierVars>>

\* lines 111-115: lineage_ok is logged with the record's version.
p_lineage_ok_log(id) ==
    /\ call[id].pc = "lineage_ok_log"
    /\ p_write(id, call[id],
           Event("lineage_ok", call[id].document_id, "lineage", "accepted",
                 "Lineage valid",
                 Dict([version |-> call[id].normalized_record[2].version])),
           NoVerdict)
    /\ UNCHANGED <<historyVars, now, writerVars, verifierVars, bundles>>

\* lines 118-119: the scorer runs on the content.
p_detect(id) ==
    /\ call[id].pc = "detect"
    /\ LET cl == [call[id] EXCEPT !.semantic_result = detect(call[id].content)]
       IN  call' = [call EXCEPT ![id] =
               [cl EXCEPT !.pc = stage_after("detect", cl),
                          !.trace = Append(@, Op("detect", "", "ok"))]]
    /\ UNCHANGED <<historyVars, logVars, now, writerVars, verifierVars, bundles>>

\* lines 120-124: semantic_fail is logged.
p_semantic_fail_log(id) ==
    /\ call[id].pc = "semantic_fail_log"
    /\ p_write(id, call[id],
           Event("semantic_fail", call[id].document_id, "semantic",
                 "quarantined", "Semantic anomaly detected",
                 Dict([scores |-> call[id].semantic_result])),
           NoVerdict)
    /\ UNCHANGED <<historyVars, now, writerVars, verifierVars, bundles>>

\* A semantic quarantine whose verdict forgets the scores.
p_semantic_bundle_without_scores(id) ==
    /\ call[id].pc = "semantic_bundle"
    /\ p_save(id, "Semantic anomaly detected.",
              IF call[id].normalized_record # NoneV
              THEN record_dict(call[id].normalized_record) ELSE NoneV,
              call[id].semantic_result,
              or_default(call[id].metadata, Dict([stage |-> Str("semantic")])),
              "Semantic anomaly.", NoneV)
    /\ UNCHANGED <<historyVars, logVars, now, writerVars, verifierVars>>

\* lines 125-138: the evidence is saved and the verdict returned.
p_semantic_bundle(id) ==
    /\ call[id].pc = "semantic_bundle"
    /\ p_save(id, "Semantic anomaly detected.",
              IF call[id].normalized_record # NoneV
              THEN record_dict(call[id].normalized_record) ELSE NoneV,
              call[id].semantic_result,
              or_default(call[id].metadata, Dict([stage |-> Str("semantic")])),
              "Semantic anomaly.", call[id].semantic_result)
    /\ UNCHANGED <<historyVars, logVars, now, writerVars, verifierVars>>

\* lines 140-144: semantic_ok is logged.
p_semantic_ok_log(id) ==
    /\ call[id].pc = "semantic_ok_log"
    /\ p_write(id, call[id],
           Event("semantic_ok", call[id].document_id, "semantic", "accepted",
                 "Semantic clean",
                 Dict([scores |-> call[id].semantic_result])),
           NoVerdict)
    /\ UNCHANGED <<historyVars, now, writerVars, verifierVars, bundles>>

\* lines 147-158: accept is logged and the verdict returned.
p_accept_log(id) ==
    /\ call[id].pc = "accept_log"
    /\ p_write(id, call[id],
           Event("accept", call[id].document_id, "pipeline_end", "accepted",
                 "Document fully clean",
                 Dict([scores |-> call[id].semantic_result])),
           [status |-> "accepted", reason |-> "Clean document.",
            bundle_path |-> NoneV,
            semantic_scores |-> call[id].semantic_result])
    /\ UNCHANGED <<historyVars, now, writerVars, verifierVars, bundles>>

\* --------------------------------------------------------- specifications
\* The state after construction: a new AuditLog over an empty file, an empty
\* quarantine directory, no call made.
Init ==
    /\ FreshLog
    /\ now = 0
    /\ WritersIdle
    /\ VerifierIdle
    /\ PipeIdle
    /\ HistoryIdle

\* One AuditLog, one caller, storage that works.
NextLog == Tick \/ WriteEvent
SpecLog == Init /\ [][NextLog]_vars

\* One AuditLog, one caller, storage that may fail.
NextLogFail == Tick \/ WriteEvent \/ WriteEventFails
SpecLogFail == Init /\ [][NextLogFail]_vars

\* One AuditLog shared by threads that call write_event.
NextConc ==
    \E w \in 1..NumWriters :
        \/ w_call(w)
        \/ w_read_counter(w)
        \/ w_read_last_hash(w)
        \/ w_set_last_hash(w)
        \/ w_load_counter(w)
        \/ w_store_counter(w)
        \/ w_append(w)
SpecConc == Init /\ [][NextConc]_vars

\* An upstream author creates a record for some content; it is signed,
\* possibly changed, and presented to the verifier with some content.
InitVerify ==
    /\ FreshLog
    /\ now = 0
    /\ WritersIdle
    /\ \E c \in Contents :
          /\ vrec = create_lineage_record(DocA, c, "security-team",
                                          "confluence", 0)
          /\ vsigned = [signed |-> FALSE, key |-> "", rec |-> vrec]
    /\ vcontent \in Contents
    /\ vout = NotRun
    /\ ntamper = 0
    /\ PipeIdle
    /\ HistoryIdle

NextVerify == v_sign \/ v_tamper \/ v_verify_record \/ v_verify_signature
SpecVerify == InitVerify /\ [][NextVerify]_vars

\* One process_document call on a new pipeline; storage may fail.
NextPipe ==
    \/ Tick
    \/ p_ingest_start(1)
    \/ p_normalize(1)
    \/ p_malformed_log(1)
    \/ p_malformed_bundle(1)
    \/ p_verify(1)
    \/ p_lineage_fail_log(1)
    \/ p_lineage_bundle(1)
    \/ p_lineage_ok_log(1)
    \/ p_detect(1)
    \/ p_semantic_fail_log(1)
    \/ p_semantic_bundle(1)
    \/ p_semantic_ok_log(1)
    \/ p_accept_log(1)
SpecPipe == Init /\ [][NextPipe]_vars

\* The steps of one process_document call after its ingest_start.
p_step(id) ==
    \/ p_normalize(id)
    \/ p_malformed_log(id)
    \/ p_malformed_bundle(id)
    \/ p_verify(id)
    \/ p_lineage_fail_log(id)
    \/ p_lineage_bundle(id)
    \/ p_lineage_ok_log(id)
    \/ p_detect(id)
    \/ p_semantic_fail_log(id)
    \/ p_semantic_bundle(id)
    \/ p_semantic_ok_log(id)
    \/ p_accept_log(id)

\* One pipeline; a document is processed, and once the call has returned the
\* same document is submitted again with the same arguments.
NextTwice ==
    \/ Tick
    \/ p_ingest_start(1)
    \/ p_step(1)
    \/ p_resubmit(2, 1)
    \/ p_step(2)
SpecTwice == Init /\ [][NextTwice]_vars

\* One AuditLog, one caller, and somebody who edits the file once.
NextTamper == WriteEvent \/ t_edit_field \/ t_edit_and_rehash
SpecTamper == Init /\ [][NextTamper]_vars

\* One log file; the AuditLog writing to it is constructed anew at any time.
NextRestart == WriteEvent \/ Restart
SpecRestart == Init /\ [][NextRestart]_vars

\* One QuarantineManager whose save_evidence_bundle is called as time passes.
NextQuarantine == Tick \/ q_save
SpecQuarantine == Init /\ [][NextQuarantine]_vars

\* A step of call id on storage that works (no write raises OSError); the
\* callers pass no metadata.
s_step(id) ==
    /\ p_ingest_start(id) \/ p_step(id)
    /\ call'[id].exc # "OSError"
    /\ call'[id].metadata = NoneV

\* Calls of process_document that run at the same time on one pipeline, one
\* AuditLog and one QuarantineManager; every running call gets its turn.
NextShared == \E id \in CallIds : s_step(id)
SpecShared ==
    /\ Init
    /\ [][NextShared]_vars
    /\ \A id \in CallIds : WF_vars(s_step(id))

\* ---------------------------------------------------------------- claims
Line(i) == load_line(log_file[i])

C2_NoFork ==
    /\ \A i, j \in 1..Len(log_file) :
          i # j => /\ Line(i).index # Line(j).index
                   /\ Line(i).prev_hash # Line(j).prev_hash
    /\ \A i \in 2..Len(log_file) :
          /\ Line(i).index > Line(i - 1).index
          /\ Line(i).prev_hash = Line(i - 1).entry_hash

\* C8: after any write_event call, failed or not, last_hash is the
\* entry_hash of the last persisted line (absent if none) and counter is the
\* number of persisted lines; so the file has gap-free indexes and an
\* unbroken chain even after a failed append followed by a successful one.
C8_AtomicChainHead ==
    /\ counter = Len(log_file)
    /\ last_hash = IF Len(log_file) = 0 THEN NoneV
                   ELSE Line(Len(log_file)).entry_hash
    /\ \A i \in 1..Len(log_file) : Line(i).index = i - 1
    /\ \A i \in 2..Len(log_file) : Line(i).prev_hash = Line(i - 1).entry_hash

\* What a returned or raised call did, by collaborator.
OpNames(id, op) ==
    LET t == SelectSeq(call[id].trace, LAMBDA e : e.op = op)
    IN  [i \in 1..Len(t) |-> t[i].name]

AllowedEventSequences ==
    {<<"ingest_start", "lineage_fail">>,
     <<"ingest_start", "semantic_fail">>,
     <<"ingest_start", "lineage_ok", "semantic_fail">>,
     <<"ingest_start", "semantic_ok", "accept">>,
     <<"ingest_start", "lineage_ok", "semantic_ok", "accept">>}

\* C3: a call that returns a verdict returns "accepted", with no bundle path,
\* if and only if (no lineage input was supplied or the input normalized to a
\* record that verify_record accepts) and the scorer does not mark the content
\* suspicious; otherwise it returns "quarantined".  No document whose
\* content-hash check or signature check failed is accepted.
C3_AcceptanceGate ==
    \A id \in CallIds : call[id].pc = "returned" =>
        LET cl == call[id]
            rec == normalize_lineage_record(cl.lineage_record)
            lineage_ok ==
                \/ cl.lineage_record = NoneV
                \/ /\ rec # NoneV
                   /\ verify_record(TrustedKey, rec[2], cl.content)
                        = Verdict(TRUE, "Lineage and integrity verified.")
            suspicious == detect(cl.content)[2].is_suspicious = BoolV(TRUE)
        IN  /\ cl.ret.status \in {"accepted", "quarantined"}
            /\ cl.ret.status = "accepted" <=> (lineage_ok /\ ~suspicious)
            /\ cl.ret.status = "accepted" => cl.ret.bundle_path = NoneV
            /\ ( /\ rec # NoneV
                 /\ \/ ~verify_content_hash(rec[2], cl.content)
                    \/ verify_signature(TrustedKey, rec[2]) # Ret(TRUE) )
               => cl.ret.status = "quarantined"

C3_Witness ==
    /\ call[1].pc = "returned"
    /\ call[1].ret.status = "accepted"
    /\ call[1].lineage_record # NoneV
    /\ call[1].verified.ok

\* C4: the audit events a call that returns a verdict has written are one of
\* the sequences ingest_start, lineage_fail | ingest_start, [lineage_ok],
\* semantic_fail | ingest_start, [lineage_ok], semantic_ok, accept; and
\* save_evidence_bundle was invoked exactly once if the verdict is
\* quarantined and never if it is accepted.
C4_EventSequence ==
    \A id \in CallIds : call[id].pc = "returned" =>
        /\ OpNames(id, "write_event") \in AllowedEventSequences
        /\ \A i \in 1..Len(call[id].trace) : call[id].trace[i].outcome = "ok"
        /\ Len(OpNames(id, "save_evidence_bundle"))
             = IF call[id].ret.status = "quarantined" THEN 1 ELSE 0
        /\ call[id].ret.status = "accepted"
             <=> OpNames(id, "write_event")[Len(OpNames(id, "write_event"))]
                   = "accept"

C4_Witness ==
    /\ call[1].pc = "returned"
    /\ OpNames(1, "write_event")
         = <<"ingest_start", "lineage_ok", "semantic_fail">>
    /\ Len(OpNames(1, "save_evidence_bundle")) = 1

\* C5: verify_record returns (false, "Content hash mismatch.") whenever the
\* record's content_hash differs from the digest of the content, whatever the
\* signature; (false, "Invalid signature.") when the hash matches and the
\* signature is absent or is not the MAC of the payload; and (true, ...) only
\* when both checks pass.
C5_VerifierOrdering ==
    vout.record.run =>
        LET r == vout.record
            hash_ok == vrec.content_hash = compute_content_hash(vcontent)
            sig_ok == vrec.signature
                        = sign(TrustedKey, core_payload_bytes(vrec))
        IN  /\ ~hash_ok =>
                 /\ r.raised = "" /\ ~r.ok
                 /\ r.reason = "Content hash mismatch."
            /\ (hash_ok /\ ~sig_ok) =>
                 /\ r.raised = "" /\ ~r.ok
                 /\ r.reason = "Invalid signature."
            /\ (r.raised = "" /\ r.ok) =>
                 /\ hash_ok /\ sig_ok
                 /\ r.reason = "Lineage and integrity verified."

\* C6: after signature = sign(core_payload_bytes(record)) is attached,
\* verify_signature is true under the same key, attaching it left
\* core_payload_bytes unchanged, and verify_signature is false once any field
\* of the record or the signature was changed or the key differs.
C6_SignatureRoundTrip ==
    (vsigned.signed /\ vout.signature.run) =>
        LET r == vout.signature
        IN  /\ core_payload_bytes(vsigned.rec)
                 = core_payload_bytes([vsigned.rec EXCEPT !.signature = NoneV])
            /\ (vrec = vsigned.rec /\ vsigned.key = TrustedKey)
                 => (r.raised = "" /\ r.value)
            /\ (vrec # vsigned.rec \/ vsigned.key # TrustedKey)
                 => (r.raised = "" /\ ~r.value)

\* C7: whatever the lineage input, process_document does not end by raising
\* because of the input: with working storage it returns a verdict.
C7_ValidationNeverRaises ==
    \A id \in CallIds :
        call[id].pc = "raised" => call[id].exc = "OSError"

\* C9: a failed audit-log append or evidence-bundle write ends the call: the
\* failure is the last thing the call did, no verdict is returned, and the
\* call does nothing afterwards (no later stage, no second attempt).
C9_StorageFailureFatal ==
    /\ [](\A id \in CallIds : \A i \in 1..Len(call[id].trace) :
            call[id].trace[i].outcome = "OSError" =>
                /\ i = Len(call[id].trace)
                /\ call[id].pc = "raised"
                /\ call[id].ret = NoVerdict)
    /\ [][\A id \in CallIds :
            call[id].pc = "raised" => call'[id] = call[id]]_vars

C9_Witness ==
    /\ call[1].pc = "raised"
    /\ call[1].exc = "OSError"
    /\ Len(call[1].trace) >= 3
    /\ call[1].trace[Len(call[1].trace)].op = "save_evidence_bundle"

\* C10: when a call has ended, by a verdict or by a storage failure, every
\* persisted audit entry with status quarantined has a completely written
\* evidence bundle, and the ingest_start entry is followed by the call's
\* terminal entry.
C10_NoPartialState ==
    call[1].pc \in {"returned", "raised"} =>
        /\ (\E i \in 1..Len(log_file) : Line(i).status = "quarantined") =>
              /\ \E i \in 1..Len(call[1].trace) :
                    /\ call[1].trace[i].op = "save_evidence_bundle"
                    /\ call[1].trace[i].outcome = "ok"
              /\ \E p \in DOMAIN bundles :
                    {"content.txt", "reason.txt"} \subseteq DOMAIN bundles[p]
        /\ (\E i \in 1..Len(log_file) : Line(i).event_type = "ingest_start")
              => Line(Len(log_file)).event_type
                   \in {"accept", "lineage_fail", "semantic_fail"}

\* The operations of kind op that call id has made, and the audit events it
\* has written.
Invoked(id, op) == \E i \in DOMAIN call[id].trace : call[id].trace[i].op = op
Logged(id, event_type) ==
    \E i \in DOMAIN call[id].trace :
        /\ call[id].trace[i].op = "write_event"
        /\ call[id].trace[i].name = event_type
        /\ call[id].trace[i].outcome = "ok"

\* C11: in every verdict process_document returns, the bundle path is present
\* exactly when the status is quarantined, and the scores are present exactly
\* when the scorer was invoked: absent after a lineage_fail event (malformed
\* record or failed verification), present after semantic_fail and accept.
C11_VerdictShape ==
    \A id \in CallIds :
        call[id].pc = "returned" =>
            LET v == call[id].ret
            IN  /\ v.status \in {"accepted", "quarantined"}
                /\ (v.bundle_path # NoneV) <=> (v.status = "quarantined")
                /\ (v.semantic_scores # NoneV) <=> Invoked(id, "detect")
                /\ Logged(id, "lineage_fail") =>
                       v.status = "quarantined" /\ v.semantic_scores = NoneV
                /\ Logged(id, "semantic_fail") =>
                       /\ v.status = "quarantined"
                       /\ v.semantic_scores = call[id].semantic_result
                       /\ v.semantic_scores # NoneV
                /\ Logged(id, "accept") =>
                       /\ v.status = "accepted"
                       /\ v.semantic_scores = call[id].semantic_result
                       /\ v.semantic_scores # NoneV

\* A call that was quarantined by the semantic stage has returned.
C11_Witness ==
    /\ call[1].pc = "returned"
    /\ Logged(1, "semantic_fail")
    /\ call[1].ret.status = "quarantined"
    /\ call[1].ret.bundle_path # NoneV
    /\ call[1].ret.semantic_scores # NoneV

\* C12: for every quarantined verdict, the reason save_evidence_bundle was
\* called with is the reason of the returned verdict; after a failed lineage
\* verification that reason is the verifier's reason string.
C12_BundleReasonIsVerdictReason ==
    \A id \in CallIds :
        (call[id].pc = "returned" /\ call[id].ret.status = "quarantined") =>
            /\ \A i \in DOMAIN call[id].trace :
                  call[id].trace[i].op = "save_evidence_bundle" =>
                      call[id].trace[i].name = call[id].ret.reason
            /\ Invoked(id, "verify_record") =>
                  call[id].ret.reason = call[id].verified.reason

\* The call has ended, and not because storage failed.
Ended(id) ==
    /\ call[id].pc \in {"returned", "raised"}
    /\ call[id].exc # "OSError"

\* The lineage input was supplied and cannot be coerced into a record.
Malformed(id) ==
    /\ call[id].pc # "idle"
    /\ call[id].lineage_record # NoneV
    /\ normalize_lineage_record(call[id].lineage_record) = NoneV

\* C13: when the lineage input is supplied and cannot be coerced into a
\* record (a mapping with missing or unknown fields, or a value that is not a
\* mapping), process_document returns quarantined with the reason "Invalid
\* lineage record structure." and a bundle path, and neither verify_record
\* nor detect is invoked.
C13_MalformedLineage ==
    \A id \in CallIds :
        Malformed(id) =>
            /\ ~Invoked(id, "verify_record")
            /\ ~Invoked(id, "detect")
            /\ Ended(id) =>
                  /\ call[id].pc = "returned"
                  /\ call[id].ret.status = "quarantined"
                  /\ call[id].ret.reason = "Invalid lineage record structure."
                  /\ call[id].ret.bundle_path # NoneV

\* The lineage input normalizes to a record whose content_hash is not the
\* hash of the content, or whose signature is absent or is not the trusted
\* key's signature of its payload.
FailsVerification(id) ==
    LET n == normalize_lineage_record(call[id].lineage_record)
    IN  /\ call[id].pc # "idle"
        /\ n # NoneV
        /\ \/ ~verify_content_hash(n[2], call[id].content)
           \/ n[2].signature = NoneV
           \/ n[2].signature # sign(TrustedKey, core_payload_bytes(n[2]))

\* C14: for a normalized record that fails verification (content_hash
\* mismatch, signature absent or invalid), process_document logs exactly
\* ingest_start then lineage_fail, never invokes the scorer, and returns
\* quarantined with the verifier's reason, a bundle path and no scores.
C14_LineageFailurePath ==
    \A id \in CallIds :
        FailsVerification(id) =>
            /\ ~Invoked(id, "detect")
            /\ \A i \in DOMAIN call[id].trace :
                  call[id].trace[i].op = "write_event" =>
                      call[id].trace[i].name \in {"ingest_start", "lineage_fail"}
            /\ Ended(id) =>
                  /\ call[id].pc = "returned"
                  /\ OpNames(id, "write_event") = <<"ingest_start", "lineage_fail">>
                  /\ call[id].ret.status = "quarantined"
                  /\ call[id].ret.reason \in {"Content hash mismatch.",
                                              "Invalid signature."}
                  /\ OpNames(id, "verify_record") = <<call[id].ret.reason>>
                  /\ call[id].ret.bundle_path # NoneV
                  /\ call[id].ret.semantic_scores = NoneV

\* The lineage input is absent, or normalizes to a record that verifies.
LineagePasses(id) ==
    LET n == normalize_lineage_record(call[id].lineage_record)
    IN  /\ call[id].pc # "idle"
        /\ \/ call[id].lineage_record = NoneV
           \/ /\ n # NoneV
              /\ verify_record(TrustedKey, n[2], call[id].content).ok

\* The scorer marks the content of the call as suspicious.
Suspicious(id) == detect(call[id].content)[2].is_suspicious = BoolV(TRUE)

\* C15: when lineage is absent or verifies and the scorer marks the content
\* suspicious, process_document logs ingest_start, lineage_ok when a record
\* was given, then semantic_fail, and returns quarantined with the reason
\* "Semantic anomaly detected.", the suspicious scores, and a bundle saved
\* with those scores; no semantic_ok or accept event is logged.
C15_SemanticPoisoningPath ==
    \A id \in CallIds :
        (LineagePasses(id) /\ Suspicious(id)) =>
            /\ ~Logged(id, "semantic_ok")
            /\ ~Logged(id, "accept")
            /\ Ended(id) =>
                  /\ call[id].pc = "returned"
                  /\ OpNames(id, "write_event") =
                        IF call[id].lineage_record = NoneV
                        THEN <<"ingest_start", "semantic_fail">>
                        ELSE <<"ingest_start", "lineage_ok", "semantic_fail">>
                  /\ call[id].ret.status = "quarantined"
                  /\ call[id].ret.semantic_scores = detect(call[id].content)
                  /\ call[id].ret.bundle_path \in DOMAIN bundles
                  /\ bundles[call[id].ret.bundle_path]["detection_scores.json"]
                        = call[id].ret.semantic_scores
                  /\ call[id].ret.reason = "Semantic anomaly detected."

\* C16: a call without lineage never invokes the verifier and logs neither
\* lineage_ok nor lineage_fail; it goes from ingest_start straight to the
\* scorer, and the scorer alone decides the status it returns.
C16_AbsentLineage ==
    \A id \in CallIds :
        (call[id].pc # "idle" /\ call[id].lineage_record = NoneV) =>
            /\ ~Invoked(id, "verify_record")
            /\ \A i \in DOMAIN call[id].trace :
                  call[id].trace[i].name \notin {"lineage_ok", "lineage_fail"}
            /\ Len(call[id].trace) >= 2 =>
                  /\ call[id].trace[1] = Op("write_event", "ingest_start", "ok")
                  /\ call[id].trace[2].op = "detect"
            /\ call[id].pc = "returned" =>
                  (call[id].ret.status = "accepted" <=> ~Suspicious(id))

\* A call without lineage was quarantined on the scorer's word alone.
C16_Witness ==
    /\ call[1].pc = "returned"
    /\ call[1].lineage_record = NoneV
    /\ Invoked(1, "detect")
    /\ call[1].ret.status = "quarantined"
    /\ Suspicious(1)

\* Calls a and b were made with identical arguments and have both returned.
SameInputsReturned(a, b) ==
    /\ call[a].pc = "returned"
    /\ call[b].pc = "returned"
    /\ call[a].document_id = call[b].document_id
    /\ call[a].content = call[b].content
    /\ call[a].lineage_record = call[b].lineage_record
    /\ call[a].metadata = call[b].metadata

\* A bundle path without its timestamp; None stays None.
path_without_timestamp(path) ==
    IF path = NoneV THEN NoneV ELSE <<path[1], path[2], Tail(path[3])>>

\* C17 as stated: two calls with identical arguments, made in different
\* pipeline states (audit chain, clock, quarantine contents), go through the
\* same stages and return the same verdict field for field: status, reason,
\* bundle path and scores.
C17_SameVerdict ==
    SameInputsReturned(1, 2) =>
        /\ call[1].trace = call[2].trace
        /\ call[1].ret = call[2].ret

\* C17, amended: two calls with identical arguments go through the same
\* stages and return the same status, reason and scores; their bundle paths
\* are both absent or differ at most in the timestamp, and are equal when the
\* two bundles were saved within the same second.
C17_SameVerdictUpToTimestamp ==
    SameInputsReturned(1, 2) =>
        /\ call[1].trace = call[2].trace
        /\ call[1].ret.status = call[2].ret.status
        /\ call[1].ret.reason = call[2].ret.reason
        /\ call[1].ret.semantic_scores = call[2].ret.semantic_scores
        /\ path_without_timestamp(call[1].ret.bundle_path)
              = path_without_timestamp(call[2].ret.bundle_path)
        /\ call[1].ret.status = "quarantined" =>
              \A t1, t2 \in 0..now :
                  (/\ call[1].ret.bundle_path
                         = bundle_path_of(t1, call[1].document_id)
                   /\ call[2].ret.bundle_path
                         = bundle_path_of(t2, call[2].document_id)
                   /\ t1 \div TicksPerSecond = t2 \div TicksPerSecond)
                  => call[1].ret.bundle_path = call[2].ret.bundle_path

\* The same document was quarantined twice, in different seconds: the two
\* verdicts agree on status, reason and scores and name different bundles.
C17_Witness ==
    /\ SameInputsReturned(1, 2)
    /\ call[1].ret.status = "quarantined"
    /\ call[2].ret.status = "quarantined"
    /\ call[1].ret.reason = call[2].ret.reason
    /\ call[1].ret.bundle_path # call[2].ret.bundle_path
    /\ log_file # <<>>
    /\ call[1].ret.bundle_path \in DOMAIN bundles

\* C18: after any single field of a stored entry is changed and its
\* entry_hash kept, the hash recomputed from the entry differs from the
\* stored one; after the entry_hash is replaced as well, the prev_hash of the
\* next entry, when there is one, no longer equals it.
C18_TamperDetected ==
    LET i == tampered.index
    IN  /\ tampered.kind = "field" =>
              recompute_hash(log_file[i]) # Line(i).entry_hash
        /\ tampered.kind = "rehash" =>
              /\ recompute_hash(log_file[i]) = Line(i).entry_hash
              /\ i < Len(log_file) =>
                    Line(i + 1).prev_hash # Line(i).entry_hash

\* The details of an entry that has a successor were changed.
C18_Witness ==
    /\ tampered.kind = "field"
    /\ tampered.field = "details"
    /\ tampered.index < Len(log_file)
    /\ recompute_hash(log_file[tampered.index]) # Line(tampered.index).entry_hash

\* C19: the persisted log has indexes 0, 1, 2, ... and an unbroken prev_hash
\* chain after any sequence of operations, a new AuditLog on a path that
\* already holds entries included: the first entry the new instance writes
\* continues the index and the prev_hash of the last persisted line.
C19_ChainAcrossInstances ==
    \A i \in 1..Len(log_file) :
        /\ Line(i).index = i - 1
        /\ i > 1 => Line(i).index > Line(i - 1).index
        /\ Line(i).prev_hash =
              IF i = 1 THEN NoneV ELSE Line(i - 1).entry_hash

\* Saves i and j were made within the same second for document ids that are
\* equal once spaces are replaced by underscores.
SameSecondSameSafeId(i, j) ==
    /\ bundle_timestamp(saves[i].time) = bundle_timestamp(saves[j].time)
    /\ safe_id(saves[i].document_id) = safe_id(saves[j].document_id)

\* The document id holds no path separator.
Plain(document_id) ==
    \A k \in 1..Len(document_id) : document_id[k] # "/"

\* The directory save i wrote into.
SavedDirectory(i) == directory_of(saves[i].path)

\* C20 as stated: once save_evidence_bundle has returned a bundle path, no
\* later call, whatever its document_id and time, changes, adds to or
\* replaces the artifacts of that bundle, and each bundle holds the artifacts
\* of exactly one call.
C20_BundlesImmutable ==
    \A i \in 1..Len(saves) :
        /\ SavedDirectory(i) \in DOMAIN bundles
        /\ bundles[SavedDirectory(i)] = saves[i].directory
        /\ bundles[SavedDirectory(i)] = saves[i].artifacts

\* C20, amended: a returned bundle is left unchanged by every later call
\* whose path leads to another directory, and a bundle no other call wrote
\* into holds the artifacts of one call only; a call in the same second for
\* a document_id equal after sanitization returns the same path and writes
\* into that directory; calls for document ids without path separators reach
\* the same directory in no other case.
C20_BundlesImmutableUnlessSamePath ==
    \A i \in 1..Len(saves) :
        /\ SavedDirectory(i) \in DOMAIN bundles
        /\ (\A j \in (i + 1)..Len(saves) :
               SavedDirectory(j) # SavedDirectory(i)) =>
              bundles[SavedDirectory(i)] = saves[i].directory
        /\ (\A j \in 1..Len(saves) :
               j # i => SavedDirectory(j) # SavedDirectory(i)) =>
              bundles[SavedDirectory(i)] = saves[i].artifacts
        /\ \A j \in 1..Len(saves) :
              /\ SameSecondSameSafeId(i, j) => saves[i].path = saves[j].path
              /\ (/\ Plain(saves[i].document_id)
                  /\ Plain(saves[j].document_id)
                  /\ ~SameSecondSameSafeId(i, j))
                 => SavedDirectory(i) # SavedDirectory(j)

\* Two bundles with different artifacts were saved for the same document in
\* different seconds, and the first is as its call left it.
C20_Witness ==
    /\ Len(saves) = 2
    /\ saves[1].document_id = DocA
    /\ saves[2].document_id = DocA
    /\ SavedDirectory(1) # SavedDirectory(2)
    /\ saves[1].artifacts # saves[2].artifacts
    /\ bundles[SavedDirectory(1)] = saves[1].artifacts

\* The bundle directory of a call that has returned a quarantined verdict.
ReturnedBundle(id) == bundles[call[id].ret.bundle_path]
Quarantined(id) ==
    /\ call[id].pc = "returned"
    /\ call[id].ret.status = "quarantined"
    /\ call[id].ret.bundle_path \in DOMAIN bundles

\* The stage named in the metadata the pipeline falls back to.
StageOfBundle(id) ==
    IF Invoked(id, "detect") THEN "semantic"
    ELSE IF Invoked(id, "verify_record") THEN "lineage"
    ELSE "lineage_deserialization"

\* C21 as stated: in every bundle process_document writes, content and reason
\* are written, and lineage_record is present iff the caller supplied a
\* lineage input, detection_scores iff the scorer had run, metadata iff the
\* caller supplied metadata.
C21_ArtifactsIffSupplied ==
    \A id \in CallIds :
        Quarantined(id) =>
            LET D == DOMAIN ReturnedBundle(id)
            IN  /\ {"content.txt", "reason.txt"} \subseteq D
                /\ "lineage_record.json" \in D
                      <=> call[id].lineage_record # NoneV
                /\ "detection_scores.json" \in D <=> Invoked(id, "detect")
                /\ "metadata.json" \in D <=> call[id].metadata # NoneV

\* C21, amended: content and reason are always written; lineage_record is
\* present iff the caller's lineage input is not empty, detection_scores iff
\* the scorer had run; metadata is always present and holds the caller's
\* metadata when that is not empty and the name of the stage otherwise.
C21_ArtifactsIffNonEmpty ==
    \A id \in CallIds :
        Quarantined(id) =>
            LET B == ReturnedBundle(id)
                D == DOMAIN B
            IN  /\ D \subseteq {"content.txt", "reason.txt",
                                "lineage_record.json",
                                "detection_scores.json", "metadata.json"}
                /\ {"content.txt", "reason.txt", "metadata.json"} \subseteq D
                /\ B["content.txt"] = Str(call[id].content)
                /\ "lineage_record.json" \in D
                      <=> truthy(call[id].lineage_record)
                /\ "detection_scores.json" \in D <=> Invoked(id, "detect")
                /\ "detection_scores.json" \in D =>
                      B["detection_scores.json"] = call[id].semantic_result
                /\ B["metadata.json"] =
                      IF truthy(call[id].metadata) THEN call[id].metadata
                      ELSE Dict([stage |-> Str(StageOfBundle(id))])

\* A call with an empty mapping as lineage and no metadata was quarantined:
\* its bundle has no lineage_record and has the fallback metadata.
C21_Witness ==
    /\ Quarantined(1)
    /\ call[1].lineage_record = EmptyDict
    /\ call[1].metadata = NoneV
    /\ "lineage_record.json" \notin DOMAIN ReturnedBundle(1)
    /\ "metadata.json" \in DOMAIN ReturnedBundle(1)

\* The (event_type, stage) pairs of the persisted audit entries, in order.
PersistedEvents ==
    [i \in 1..Len(log_file) |-> <<Line(i).event_type, Line(i).stage>>]

\* C22 as stated: for a malformed lineage input the call writes ingest_start
\* and a deserialization-failure event, and no event of type lineage_ok or
\* lineage_fail.
C22_NoLineageEvent ==
    Malformed(1) =>
        \A i \in 1..Len(log_file) :
            Line(i).event_type \notin {"lineage_ok", "lineage_fail"}

\* C22, amended: for a malformed lineage input the call writes ingest_start
\* and then one event of type lineage_fail at stage lineage_deserialization,
\* and nothing else: no lineage_ok, and no lineage_fail of the verifier's
\* stage; a call that returns has written both.
C22_DeserializationFailureEvent ==
    Malformed(1) =>
        /\ PersistedEvents \in
              {<<>>,
               <<<<"ingest_start", "start">>>>,
               <<<<"ingest_start", "start">>,
                 <<"lineage_fail", "lineage_deserialization">>>>}
        /\ call[1].pc = "returned" => Len(log_file) = 2

\* A call with a malformed lineage input has returned, its two events logged.
C22_Witness ==
    /\ Malformed(1)
    /\ call[1].pc = "returned"
    /\ Len(log_file) = 2
    /\ Line(2).event_type = "lineage_fail"
    /\ Line(2).stage = "lineage_deserialization"

\* C23: a write_event call that succeeds appends exactly one line and leaves
\* the lines before it as they were; the new entry has the index counter had
\* and the prev_hash last_hash had before the call, counter grows by exactly
\* one and last_hash becomes the new entry's entry_hash.
C23_WriteEventFrame ==
    [][(attempts' # attempts /\ attempts'[Len(attempts')]) =>
          /\ Len(attempts') = Len(attempts) + 1
          /\ Len(log_file') = Len(log_file) + 1
          /\ SubSeq(log_file', 1, Len(log_file)) = log_file
          /\ load_line(log_file'[Len(log_file')]).index = counter
          /\ load_line(log_file'[Len(log_file')]).prev_hash = last_hash
          /\ counter' = counter + 1
          /\ last_hash' = load_line(log_file'[Len(log_file')]).entry_hash
          /\ last_hash' = recompute_hash(log_file'[Len(log_file')])]_vars

\* Two calls have succeeded after one that failed: the file holds two lines
\* and the chain head is the hash of the second.
C23_Witness ==
    /\ attempts = <<FALSE, TRUE, TRUE>>
    /\ Len(log_file) = 2
    /\ counter = 3
    /\ Line(2).index = 2
    /\ Line(2).prev_hash = Line(1).entry_hash
    /\ last_hash = Line(2).entry_hash

\* C24: the path save_evidence_bundle returns is made of the quarantine
\* root, the UTC second of the call and the document_id with its spaces
\* replaced by underscores, and of nothing else: two calls return the same
\* path exactly when they are made in the same second for document ids that
\* are equal after sanitization.
C24_PathFunction ==
    \A i \in 1..Len(saves) :
        /\ saves[i].path =
              <<"path", QuarantineDir,
                <<bundle_timestamp(saves[i].time), "_">>
                    \o safe_id(saves[i].document_id)>>
        /\ \A j \in 1..Len(saves) :
              (saves[i].path = saves[j].path) <=> SameSecondSameSafeId(i, j)

\* Two calls within one second, for "doc a" and for "doc_a" and with
\* different content, returned the same path.
C24_Witness ==
    /\ Len(saves) = 2
    /\ saves[1].document_id = DocA
    /\ saves[2].document_id = <<"d", "o", "c", "_", "a">>
    /\ saves[1].time # saves[2].time
    /\ saves[1].artifacts # saves[2].artifacts
    /\ saves[1].path = saves[2].path

\* C26: for every document_id, path separators and ".." included, the
\* directory save_evidence_bundle creates and writes its artifacts into is a
\* direct child of the quarantine root, and only the spaces of the
\* document_id are rewritten.
C26_QuarantineContainment ==
    \A i \in 1..Len(saves) :
        /\ SubSeq(saves[i].path[3], 3, Len(saves[i].path[3]))
              = safe_id(saves[i].document_id)
        /\ resolved(saves[i].path).up = 0
        /\ Len(resolved(saves[i].path).stack) = 1
        /\ SavedDirectory(i) \in DOMAIN bundles
        /\ SavedDirectory(i)[1] = "path"

\* C25: with calls running at the same time on shared stores, storage that
\* works and fair scheduling, every call that has written ingest_start
\* reaches one terminal state and returns its verdict: at any time it has
\* returned accepted or quarantined, or it has a next step it can take
\* without waiting for another call.
C25_EveryCallReturns ==
    \A id \in CallIds :
        Logged(id, "ingest_start") =>
            \/ /\ call[id].pc = "returned"
               /\ call[id].ret.status \in {"accepted", "quarantined"}
            \/ /\ call[id].pc \notin {"returned", "raised"}
               /\ ENABLED s_step(id)

====
